---- MODULE Spec2Model ----
(***************************************************************************)
(* The customer-segmentation dashboard of app.py as a state machine.       *)
(*                                                                         *)
(* The script is re-executed from top to bottom on every user interaction  *)
(* (one "render pass").  The state that survives a pass is the st.cache_   *)
(* data entry of load_data and the multiselect's widget value; the state   *)
(* outside the program is the CSV file.  What a pass shows is kept in ui.  *)
(*                                                                         *)
(* Money is counted in integer cents, means are exact fractions num/den,   *)
(* percentages are counted in tenths of a percent.  Text produced by       *)
(* str.format is a sequence of one-character strings.  The columns         *)
(* Recency, Frequency and the two logarithms only feed chart values and    *)
(* are not carried; their charts are.                                      *)
(***************************************************************************)
EXTENDS Integers, Sequences, FiniteSets, TLC

VARIABLES
    fileExists,   \* 'rfm_data_cleaned.csv' is present in the working directory
    fileRows,     \* the rows of the CSV (as the notebook wrote them)
    cache,        \* the st.cache_data entry of load_data
    reads,        \* how many times pd.read_csv was called in this process
    selection,    \* value of the sidebar multiselect (widget state)
    ui,           \* elements the last render pass put on the page
    fmt           \* the currency round trip of one mean: format, then parse

vars == <<fileExists, fileRows, cache, reads, selection, ui, fmt>>

----------------------------------------------------------------------------
(* Bounds of the model *)

MaxRows == 3        \* rows in the CSV
MaxReads == 2       \* read_csv calls after which no further pass is explored
MaxDen == 3         \* rows averaged in the currency round trip

CustomerIDs == {1, 2}
ClusterCodes == {0, 3, 7}             \* 7 has no persona
Spend == <<100005, -2550>>            \* Monetary of each customer's rows, in cents

----------------------------------------------------------------------------
(* Generic helpers *)

Abs(x) == IF x < 0 THEN -x ELSE x

RECURSIVE SumSeq(_)
SumSeq(s) == IF s = <<>> THEN 0 ELSE Head(s) + SumSeq(Tail(s))

Reverse(s) == [i \in 1..Len(s) |-> s[Len(s) + 1 - i]]

Digits == <<"0", "1", "2", "3", "4", "5", "6", "7", "8", "9">>

\* str(n) for n >= 0, as a sequence of characters
RECURSIVE DecimalDigits(_)
DecimalDigits(n) ==
    IF n < 10 THEN <<Digits[n + 1]>>
    ELSE Append(DecimalDigits(n \div 10), Digits[(n % 10) + 1])

----------------------------------------------------------------------------
(* Loader: load_data under @st.cache_data *)

\* df['Cluster'].astype(str) on an integer column
AsTypeStr(c) == Digits[c + 1]

\* pd.read_csv followed by the Cluster coercion
ReadCsv(rows) ==
    [i \in 1..Len(rows) |->
        [CustomerID |-> rows[i].CustomerID,
         Cluster    |-> AsTypeStr(rows[i].Cluster),
         Monetary   |-> rows[i].Monetary]]

\* The return value None
NoTable == [ok |-> FALSE, df |-> <<>>]

EmptyCache == [filled |-> FALSE, value |-> NoTable, error |-> FALSE]

\* The body of load_data: the table, or st.error and None.
LoadDataBody(exists, rows) ==
    IF exists
    THEN [value |-> [ok |-> TRUE, df |-> ReadCsv(rows)], error |-> FALSE]
    ELSE [value |-> NoTable, error |-> TRUE]

\* A load_data whose except branch returns None without st.error.
LoadDataSilent(c, exists, rows) ==
    IF c.filled
    THEN [value |-> c.value, error |-> c.error, read |-> FALSE, cache |-> c]
    ELSE LET r == LoadDataBody(exists, rows)
         IN [value |-> r.value, error |-> FALSE, read |-> TRUE,
             cache |-> [filled |-> TRUE, value |-> r.value, error |-> FALSE]]

\* A load_data without the @st.cache_data decorator.
LoadDataUncached(c, exists, rows) ==
    LET r == LoadDataBody(exists, rows)
    IN [value |-> r.value, error |-> r.error, read |-> TRUE,
        cache |-> [filled |-> TRUE, value |-> r.value, error |-> r.error]]

\* One call of load_data().  On a miss the body runs and its return value and
\* the st.error it emitted are stored; on a hit the stored value is returned
\* (a copy) and the stored element is replayed, and the file is not touched.
LoadData(c, exists, rows) ==
    IF c.filled
    THEN [value |-> c.value, error |-> c.error, read |-> FALSE, cache |-> c]
    ELSE LET r == LoadDataBody(exists, rows)
         IN [value |-> r.value, error |-> r.error, read |-> TRUE,
             cache |-> [filled |-> TRUE, value |-> r.value, error |-> r.error]]

----------------------------------------------------------------------------
(* Labeler *)

PersonaKeys == {"0", "1", "2", "3"}

persona_names ==
    [k \in PersonaKeys |->
        CASE k = "3" -> "High-Value Champions"
          [] k = "1" -> "Loyal & Regular"
          [] k = "0" -> "New & Promising"
          [] k = "2" -> "Lapsed Customers"]

\* list(persona_names.values())
Options == {persona_names[k] : k \in PersonaKeys}

NaN == "NaN"

\* Series.map(dict): the value of the key, NaN for a key the dict lacks
MapPersona(cluster) ==
    IF cluster \in PersonaKeys THEN persona_names[cluster] ELSE NaN

\* rfm_df['Persona'] = rfm_df['Cluster'].map(persona_names), on the copy the
\* cache handed out
AddPersona(df) ==
    [i \in 1..Len(df) |->
        [CustomerID |-> df[i].CustomerID,
         Cluster    |-> df[i].Cluster,
         Monetary   |-> df[i].Monetary,
         Persona    |-> MapPersona(df[i].Cluster)]]

----------------------------------------------------------------------------
(* Filter *)

\* Boolean-mask indexing that keeps the rows the mask rejects.
RECURSIVE FilterInverted(_, _)
FilterInverted(df, sel) ==
    IF df = <<>> THEN <<>>
    ELSE IF Head(df).Persona \in sel
         THEN FilterInverted(Tail(df), sel)
         ELSE <<Head(df)>> \o FilterInverted(Tail(df), sel)

\* rfm_df[rfm_df['Persona'].isin(selected_personas)]
RECURSIVE FilterPersonas(_, _)
FilterPersonas(df, sel) ==
    IF df = <<>> THEN <<>>
    ELSE IF Head(df).Persona \in sel
         THEN <<Head(df)>> \o FilterPersonas(Tail(df), sel)
         ELSE FilterPersonas(Tail(df), sel)

----------------------------------------------------------------------------
(* Presenter: the three KPIs *)

\* Series.nunique()
NUnique(df, col) == Cardinality({df[i][col] : i \in DOMAIN df})

\* filtered_df['Monetary'].sum()
TotalRevenue(df) == SumSeq([i \in 1..Len(df) |-> df[i].Monetary])

Metrics(filtered_df) ==
    [total_customers |-> NUnique(filtered_df, "CustomerID"),
     total_revenue   |-> TotalRevenue(filtered_df),
     unique_segments |-> NUnique(filtered_df, "Persona")]

----------------------------------------------------------------------------
(* Aggregator *)

\* The group keys in the order groupby(sort=True) emits them.
PersonaSorted ==
    <<"High-Value Champions", "Lapsed Customers", "Loyal & Regular", "New & Promising">>

GroupRows(df, p) == SelectSeq(df, LAMBDA r : r.Persona = p)

\* The keys groupby emits: those with at least one row, sorted.
GroupKeys(df) == SelectSeq(PersonaSorted, LAMBDA p : GroupRows(df, p) # <<>>)

\* Customer_Count=('CustomerID', 'count'): the group's rows with a CustomerID
CustomerCount(group) == Len(group)

\* round(1) of num/den in tenths, for num >= 0 and den > 0; numpy rounds an
\* exact half to the even neighbour.
RoundHalfEven(num, den) ==
    LET q == num \div den
        r == num % den
    IN IF 2 * r < den THEN q
       ELSE IF 2 * r > den THEN q + 1
       ELSE IF q % 2 = 0 THEN q ELSE q + 1

\* (Customer_Count / filtered_df['CustomerID'].nunique() * 100).round(1),
\* in tenths of a percent
CustomerPercentage(count, total) == RoundHalfEven(1000 * count, total)

\* Digits with a "," before every group of three from the right
RECURSIVE GroupThousands(_)
GroupThousands(d) ==
    IF Len(d) <= 3 THEN d
    ELSE GroupThousands(SubSeq(d, 1, Len(d) - 3)) \o <<",">> \o SubSeq(d, Len(d) - 2, Len(d))

\* The mean num/den cents rounded to whole cents.  A mean that lies exactly
\* half way is rounded by its binary representation: either way, as `up` says.
RoundCents(num, den, up) ==
    LET a == Abs(num)
        q == a \div den
        r == a % den
    IN IF 2 * r > den \/ (2 * r = den /\ up) THEN q + 1 ELSE q

\* '${:,.2f}'.format(mean) for the mean of num/den cents
FormatCurrency(num, den, up) ==
    LET c == RoundCents(num, den, up)
        frac == c % 100
    IN <<"$">> \o (IF num < 0 THEN <<"-">> ELSE <<>>)
       \o GroupThousands(DecimalDigits(c \div 100))
       \o <<".", Digits[(frac \div 10) + 1], Digits[(frac % 10) + 1]>>

\* summary_table before sorting: one row per group key
SummaryTable(filtered_df, up) ==
    LET keys == GroupKeys(filtered_df)
        total == NUnique(filtered_df, "CustomerID")
    IN [k \in 1..Len(keys) |->
          LET g == GroupRows(filtered_df, keys[k])
          IN [Persona             |-> keys[k],
              Avg_Monetary        |-> FormatCurrency(TotalRevenue(g), Len(g), up),
              Customer_Count      |-> CustomerCount(g),
              Customer_Percentage |-> CustomerPercentage(CustomerCount(g), total)]]

----------------------------------------------------------------------------
(* sort_values(by='Customer_Count', ascending=False) *)

\* Stable insertion of row x into an ascending table: after its equals
RECURSIVE InsertAscending(_, _)
InsertAscending(x, t) ==
    IF t = <<>> THEN <<x>>
    ELSE IF x.Customer_Count < Head(t).Customer_Count
         THEN <<x>> \o t
         ELSE <<Head(t)>> \o InsertAscending(x, Tail(t))

\* The argsort of a table of fewer than 16 rows: insertion sort
RECURSIVE ArgSortAscending(_)
ArgSortAscending(t) ==
    IF t = <<>> THEN <<>>
    ELSE InsertAscending(t[Len(t)], ArgSortAscending(SubSeq(t, 1, Len(t) - 1)))

\* A sort that leaves out ascending=False.
SortValuesAscending(t) == ArgSortAscending(t)

\* Descending order: the table is reversed, sorted ascending and reversed
\* again, which leaves rows of equal count in their groupby order.
SortValues(t) == Reverse(ArgSortAscending(Reverse(t)))

----------------------------------------------------------------------------
(* The Monetary chart: the currency text parsed back into a number *)

\* str.replace(ch, '')
RECURSIVE StrReplace(_, _)
StrReplace(s, ch) ==
    IF s = <<>> THEN <<>>
    ELSE IF Head(s) = ch THEN StrReplace(Tail(s), ch)
         ELSE <<Head(s)>> \o StrReplace(Tail(s), ch)

DigitValue(ch) == CHOOSE v \in 0..9 : Digits[v + 1] = ch

IsDigit(ch) == \E v \in 0..9 : Digits[v + 1] = ch

\* The number a run of digits denotes
RECURSIVE DigitsValue(_)
DigitsValue(d) ==
    IF d = <<>> THEN 0
    ELSE 10 * DigitsValue(SubSeq(d, 1, Len(d) - 1)) + DigitValue(d[Len(d)])

\* float(s) for the texts the format produces: sign, digits, at most one
\* point.  The value is sign * digits / 10^scale; any other character is
\* a ValueError.
ParseFloat(s) ==
    LET neg == s # <<>> /\ Head(s) = "-"
        body == IF neg THEN Tail(s) ELSE s
        dots == {i \in DOMAIN body : body[i] = "."}
        dot == CHOOSE i \in dots : TRUE
        ds == StrReplace(body, ".")
        wellFormed == /\ ds # <<>>
                      /\ Cardinality(dots) <= 1
                      /\ \A i \in DOMAIN ds : IsDigit(ds[i])
    IN IF wellFormed
       THEN [ok |-> TRUE, neg |-> neg, digits |-> DigitsValue(ds),
             scale |-> IF dots = {} THEN 0 ELSE Len(body) - dot]
       ELSE [ok |-> FALSE, neg |-> FALSE, digits |-> 0, scale |-> 0]

\* A conversion that strips the '$' and forgets the ','.
MonetaryFloatKeepCommas(text) == ParseFloat(StrReplace(text, "$"))

\* .str.replace('$', '').str.replace(',', '').astype(float), for one cell
MonetaryFloat(text) == ParseFloat(StrReplace(StrReplace(text, "$"), ","))

----------------------------------------------------------------------------
(* The script, top to bottom: one render pass *)

Blank ==
    [error          |-> FALSE,   \* st.error of load_data
     multiselect    |-> FALSE,   \* the sidebar multiselect
     warning        |-> FALSE,   \* st.warning of the empty selection
     metrics        |-> <<>>,    \* the three st.metric values, once rendered
     dataframe      |-> <<>>,    \* the table given to st.dataframe, once rendered
     bar_charts     |-> {},      \* the tabs whose bar chart was rendered
     monetary_float |-> <<>>,    \* the y values of the Monetary chart, once rendered
     scatter        |-> <<>>,    \* the rows of the scatter plot, once rendered
     exception      |-> "none"]  \* the exception that ended the pass, if any

\* A test that is true of no selection, as `selected_personas is None` is.
NotSelectedNever(sel) == FALSE

\* `not selected_personas`
NotSelected(sel) == sel = {}

\* The Monetary tab and the scatter plot, lines 122-147, after the page
\* holds everything up to the Frequency chart.
MonetaryAndScatter(page, filtered_df, summary_table) ==
    LET monetary_float ==
            [i \in 1..Len(summary_table) |-> MonetaryFloat(summary_table[i].Avg_Monetary)]
    IN IF \E i \in DOMAIN monetary_float : ~monetary_float[i].ok
       THEN [page EXCEPT !.exception = "ValueError"]
       ELSE [page EXCEPT !.bar_charts = {"Recency", "Frequency", "Monetary"},
                         !.monetary_float = <<monetary_float>>,
                         !.scatter = <<filtered_df>>]

\* Lines 52-147: everything below the empty-selection check, as the set of
\* pages the pass can end with.  Two things are not fixed by the script:
\* which way a mean that lies exactly between two cents is rounded, and, for
\* an empty summary_table, whether Series.map left Avg_Monetary a float64
\* column, on which the .str accessor of line 124 raises AttributeError, or
\* made it an object column, which the accessor accepts (the installed
\* pandas decides).
Dashboard(page, rfm_df, sel) ==
    LET filtered_df == FilterPersonas(rfm_df, sel)
        upToFrequency(summary_table) ==
            [page EXCEPT !.metrics = <<Metrics(filtered_df)>>,
                         !.dataframe = <<SortValues(summary_table)>>,
                         !.bar_charts = {"Recency", "Frequency"}]
    IN IF filtered_df = <<>>
       THEN {[upToFrequency(<<>>) EXCEPT !.exception = "AttributeError"],
             MonetaryAndScatter(upToFrequency(<<>>), filtered_df, <<>>)}
       ELSE {MonetaryAndScatter(upToFrequency(SummaryTable(filtered_df, up)),
                                filtered_df, SummaryTable(filtered_df, up)) :
                up \in BOOLEAN}

\* Lines 28-147: the pages one pass can produce from what load_data returned.
Script(ld, sel) ==
    LET loaded == [Blank EXCEPT !.error = ld.error]
    IN IF ~ld.value.ok THEN {loaded}
       ELSE LET rfm_df == AddPersona(ld.value.df)
                page == [loaded EXCEPT !.multiselect = TRUE]
            IN IF NotSelected(sel)
               THEN {[page EXCEPT !.warning = TRUE]}
               ELSE Dashboard(page, rfm_df, sel)

----------------------------------------------------------------------------
(* The currency round trip on its own *)

NoFloat == [ok |-> FALSE, neg |-> FALSE, digits |-> 0, scale |-> 0]

FmtIdle ==
    [stage |-> "idle", num |-> 0, den |-> 1, up |-> FALSE, text |-> <<>>, parsed |-> NoFloat]

Spread == 4         \* how far the sums lie around each centre, in cents

\* Means around which the text changes shape, in cents: zero, the first
\* thousands separator, the second one, and their negatives.
Centres == {0, 99999, -99999, 99999999, -123456789}

Sums == {c * d + k : c \in Centres, d \in 1..MaxDen, k \in (-Spread)..Spread}

----------------------------------------------------------------------------
(* State machine *)

RowSet ==
    {[CustomerID |-> i, Cluster |-> c, Monetary |-> Spend[i]] :
        i \in CustomerIDs, c \in ClusterCodes}

Tables == UNION {[1..n -> RowSet] : n \in 0..MaxRows}

Init ==
    /\ fileExists \in BOOLEAN
    /\ fileRows \in Tables
    /\ cache = EmptyCache
    /\ reads = 0
    /\ selection = Options
    /\ ui = Blank
    /\ fmt = FmtIdle

\* The script runs with the multiselect holding sel.
RunScript(sel) ==
    LET ld == LoadData(cache, fileExists, fileRows)
    IN /\ reads < MaxReads
       /\ cache' = ld.cache
       /\ reads' = IF ld.read THEN reads + 1 ELSE reads
       /\ selection' = sel
       /\ ui' \in Script(ld, sel)
       /\ UNCHANGED <<fileExists, fileRows, fmt>>

\* The page is opened: the multiselect starts at its default, all personas.
FirstRun ==
    /\ ~cache.filled
    /\ RunScript(Options)

\* The user adds or removes one persona in the multiselect, or clears it;
\* each change reruns the script.
SelectPersonas ==
    /\ cache.filled
    /\ ui.multiselect
    /\ \E sel \in {(selection \ {p}) \cup ({p} \ selection) : p \in Options} \cup {{}} :
          sel # selection /\ RunScript(sel)

\* The user reruns the script without touching a widget.
Rerun ==
    /\ cache.filled
    /\ RunScript(selection)

\* The file is deleted or moved away between two passes.
RemoveFile ==
    /\ fileExists
    /\ fileExists' = FALSE
    /\ UNCHANGED <<fileRows, cache, reads, selection, ui, fmt>>

\* The notebook is run and writes the file.
ProvideFile ==
    /\ ~fileExists
    /\ fileExists' = TRUE
    /\ UNCHANGED <<fileRows, cache, reads, selection, ui, fmt>>

Next ==
    \/ FirstRun
    \/ SelectPersonas
    \/ Rerun
    \/ RemoveFile
    \/ ProvideFile

Spec == Init /\ [][Next]_vars

\* A second machine: one mean is formatted as the Avg_Monetary cell and the
\* cell is parsed back as the Monetary chart does.
InitFormat ==
    /\ fileExists = TRUE
    /\ fileRows = <<>>
    /\ cache = EmptyCache
    /\ reads = 0
    /\ selection = Options
    /\ ui = Blank
    /\ \E n \in Sums, d \in 1..MaxDen, u \in BOOLEAN :
          fmt = [stage |-> "mean", num |-> n, den |-> d, up |-> u,
                 text |-> <<>>, parsed |-> NoFloat]

FormatMean ==
    /\ fmt.stage = "mean"
    /\ fmt' = [fmt EXCEPT !.stage = "text",
                          !.text = FormatCurrency(fmt.num, fmt.den, fmt.up)]
    /\ UNCHANGED <<fileExists, fileRows, cache, reads, selection, ui>>

ParseBack ==
    /\ fmt.stage = "text"
    /\ fmt' = [fmt EXCEPT !.stage = "float", !.parsed = MonetaryFloat(fmt.text)]
    /\ UNCHANGED <<fileExists, fileRows, cache, reads, selection, ui>>

NextFormat ==
    \/ FormatMean
    \/ ParseBack

SpecFormat == InitFormat /\ [][NextFormat]_vars

----------------------------------------------------------------------------
(* Vocabulary of the properties *)

\* The labeled table of the last pass, and the rows of it in view
LabeledTable == AddPersona(cache.value.df)

InView == {i \in DOMAIN LabeledTable : LabeledTable[i].Persona \in selection}

\* The k-th row in view, counted in table order
KthInView(k) == CHOOSE i \in InView : Cardinality({j \in InView : j < i}) = k - 1

CustomersOf(p) ==
    {LabeledTable[i].CustomerID : i \in {j \in InView : LabeledTable[j].Persona = p}}

CustomersInView == {LabeledTable[i].CustomerID : i \in InView}

PersonasInView == {LabeledTable[i].Persona : i \in InView}

\* The last pass got a table from load_data
TableLoaded == cache.filled /\ cache.value.ok

\* The last pass got a table and a non-empty selection
DashboardPass == TableLoaded /\ selection # {}

NothingBelowSidebar(u) ==
    /\ u.metrics = <<>>
    /\ u.dataframe = <<>>
    /\ u.bar_charts = {}
    /\ u.monetary_float = <<>>
    /\ u.scatter = <<>>
    /\ u.exception = "none"

ErrorOnly(u) ==
    /\ u.error
    /\ ~u.multiselect
    /\ ~u.warning
    /\ NothingBelowSidebar(u)

\* A step of Next that is a render pass (the other steps change the file)
IsPass == fileExists' = fileExists

PersonaOrder(d) == [i \in DOMAIN d |-> d[i].Persona]

----------------------------------------------------------------------------
(* C1 *)

\* C1 as stated: in every render pass during which the file is absent, the
\* not-found error is shown and nothing else is rendered.
C1_AbsentFileShowsErrorOnly ==
    [][(IsPass /\ ~fileExists) => ErrorOnly(ui')]_vars

\* C1 amended: load_data yields the absent signal exactly when the file was
\* absent at the one call that ran its body (a later call returns what that
\* call stored, whatever happened to the file since), and every pass in which
\* it yields the absent signal shows the not-found error and nothing else.
C1_AbsentSignalShowsErrorOnly ==
    [][IsPass =>
        /\ ~cache.filled => (cache'.value.ok <=> fileExists)
        /\ cache.filled => cache'.value = cache.value
        /\ ~cache'.value.ok => ErrorOnly(ui')]_vars

\* A pass ended with the absent signal while the file was absent.
C1_Witness ==
    /\ cache.filled /\ ~cache.value.ok
    /\ ~fileExists
    /\ ui.error

----------------------------------------------------------------------------
(* C2 *)

\* C2: a pass with a loaded table and an empty selection shows the warning
\* under the multiselect and no KPI, table or chart.
C2_EmptySelectionStops ==
    (TableLoaded /\ selection = {}) =>
        /\ ui.multiselect /\ ui.warning /\ ~ui.error
        /\ NothingBelowSidebar(ui)

C2_Witness == TableLoaded /\ selection = {} /\ ui.warning /\ Len(cache.value.df) > 0

----------------------------------------------------------------------------
(* C3 *)

\* C3: the filtered table (the rows the scatter plot is given) is the rows of
\* the labeled table whose Persona is selected, each once, in table order;
\* no row without a persona is among them.
C3_FilterIsOrderedSubset ==
    (DashboardPass /\ ui.scatter # <<>>) =>
        LET f == ui.scatter[1]
        IN /\ Len(f) = Cardinality(InView)
           /\ \A k \in DOMAIN f : f[k] = LabeledTable[KthInView(k)]
           /\ \A k \in DOMAIN f : f[k].Persona # NaN

\* The first and the third row are kept, they differ, and the row between
\* them, which has no persona, is dropped, while a persona is deselected.
C3_Witness ==
    /\ DashboardPass /\ ui.scatter # <<>>
    /\ InView = {1, 3}
    /\ LabeledTable[2].Persona = NaN
    /\ LabeledTable[1] # LabeledTable[3]
    /\ selection # Options
    /\ Len(ui.scatter[1]) = 2

----------------------------------------------------------------------------
(* C4 *)

\* C4: whenever the view is not empty, the Customer_Percentage column of the
\* summary table adds up to 100.0 within 0.1 (tenths: 1000 within 1).
C4_PercentagesSumTo100 ==
    (DashboardPass /\ InView # {} /\ ui.dataframe # <<>>) =>
        LET d == ui.dataframe[1]
        IN Abs(SumSeq([i \in DOMAIN d |-> d[i].Customer_Percentage]) - 1000) <= 1

----------------------------------------------------------------------------
(* C5 *)

\* C5: each summary row's Customer_Count is the number of distinct CustomerID
\* values of its persona in view, and its Customer_Percentage is that number
\* over the distinct CustomerID values in view, times 100, rounded to 1 decimal.
C5_CountIsDistinctCustomers ==
    (DashboardPass /\ ui.dataframe # <<>>) =>
        LET d == ui.dataframe[1]
        IN \A i \in DOMAIN d :
              /\ d[i].Customer_Count = Cardinality(CustomersOf(d[i].Persona))
              /\ d[i].Customer_Percentage =
                    RoundHalfEven(1000 * Cardinality(CustomersOf(d[i].Persona)),
                                  Cardinality(CustomersInView))

----------------------------------------------------------------------------
(* C6 *)

\* C6: with exactly one persona selected and n >= 1 customers carrying it,
\* 'Total Customers in View' is n, the summary table has one row and the
\* row's Customer_Percentage is 100.0.
C6_SinglePersonaIs100Percent ==
    (DashboardPass /\ Cardinality(selection) = 1 /\ InView # {} /\ ui.dataframe # <<>>) =>
        LET d == ui.dataframe[1]
            p == CHOOSE q \in selection : TRUE
        IN /\ ui.metrics[1].total_customers = Cardinality(CustomersOf(p))
           /\ Len(d) = 1
           /\ d[1].Customer_Percentage = 1000

----------------------------------------------------------------------------
(* C7 *)

\* C7: read_csv is called at most once in the process, only by a call of
\* load_data that finds nothing memoized, and once a value is memoized no
\* pass changes it.
C7_ReadOnceAndKept ==
    [][/\ reads' <= 1
       /\ cache.filled => (cache' = cache /\ reads' = reads)]_vars

\* A table was read once and a later pass, with another selection, ran on it.
C7_Witness ==
    /\ TableLoaded /\ Len(cache.value.df) > 0
    /\ reads = 1
    /\ selection # Options
    /\ ui.metrics # <<>>

----------------------------------------------------------------------------
(* C8 *)

SortedDescendingOnce(u) ==
    u.dataframe # <<>> =>
        LET d == u.dataframe[1]
        IN /\ \A i \in 1..(Len(d) - 1) : d[i].Customer_Count >= d[i + 1].Customer_Count
           /\ \A i, j \in DOMAIN d : d[i].Persona = d[j].Persona => i = j

\* C8: the displayed summary table is in descending Customer_Count order and
\* holds each persona in view exactly once, ties included; and a pass over the
\* same filtered input as the pass before shows the rows in the same order.
C8_SortedDescendingStable ==
    [][IsPass =>
        /\ SortedDescendingOnce(ui')
        /\ (DashboardPass' /\ ui'.dataframe # <<>>) =>
              {ui'.dataframe[1][i].Persona : i \in DOMAIN ui'.dataframe[1]} = PersonasInView'
        /\ (DashboardPass /\ DashboardPass' /\ ui.dataframe # <<>> /\ ui'.dataframe # <<>>
              /\ [k \in 1..Cardinality(InView) |-> LabeledTable[KthInView(k)]]
                   = [k \in 1..Cardinality(InView') |-> LabeledTable'[KthInView(k)']])
              => PersonaOrder(ui'.dataframe[1]) = PersonaOrder(ui.dataframe[1])]_vars

\* Two personas with the same Customer_Count are both shown.
C8_Witness ==
    /\ DashboardPass /\ ui.dataframe # <<>>
    /\ Len(ui.dataframe[1]) = 2
    /\ ui.dataframe[1][1].Customer_Count = ui.dataframe[1][2].Customer_Count

----------------------------------------------------------------------------
(* C9 *)

\* C9: the text of a mean, parsed back, is a number within half a cent of the
\* mean (num/den cents; the parsed number has two decimals, so its digits
\* count cents).
C9_RoundTripWithinHalfCent ==
    fmt.stage = "float" =>
        /\ fmt.parsed.ok
        /\ fmt.parsed.scale = 2
        /\ LET cents == IF fmt.parsed.neg THEN -fmt.parsed.digits ELSE fmt.parsed.digits
           IN 2 * Abs(cents * fmt.den - fmt.num) <= fmt.den

\* A negative mean with a thousands separator, exactly between two cents.
C9_Witness ==
    /\ fmt.stage = "float"
    /\ fmt.num < 0
    /\ \E i \in DOMAIN fmt.text : fmt.text[i] = ","
    /\ 2 * (Abs(fmt.num) % fmt.den) = fmt.den
    /\ fmt.parsed.ok

----------------------------------------------------------------------------
(* C10 *)

\* C10: every pass with a loaded table and a non-empty selection runs to the
\* end without an exception - KPIs, summary table, three bar charts, scatter
\* plot - and the summary table has rows for the personas in view only.
C10_AbsentPersonaSkipped ==
    DashboardPass =>
        /\ ui.exception = "none"
        /\ ui.metrics # <<>> /\ ui.dataframe # <<>> /\ ui.scatter # <<>>
        /\ ui.bar_charts = {"Recency", "Frequency", "Monetary"}
        /\ {ui.dataframe[1][i].Persona : i \in DOMAIN ui.dataframe[1]} = PersonasInView

====
